---- MODULE Spec2Model ----
(***************************************************************************)
(* Book Review API: the review lifecycle (create / update / delete), the   *)
(* unique (book, user) index on reviews and the automatic refresh of a     *)
(* book's averageRating / totalReviews.                                    *)
(*                                                                         *)
(* The schema, the unique index, the rating range, the defaults and the    *)
(* "automated average rating" rule are taken from the repository's README  *)
(* (src/unnamed/part_000); the route mounting from src/app.js.  The route  *)
(* handlers themselves (routes/, controllers/, models/) are required by    *)
(* src/app.js but are not part of the available sources; their step        *)
(* structure follows the specification's sections 4 and 5.                 *)
(*                                                                         *)
(* averageRating is stored in tenths (40 stands for 4.0), so that          *)
(* "rounded to one decimal" is integer arithmetic.                         *)
(***************************************************************************)
EXTENDS Integers, FiniteSets, Sequences, TLC

\* ------------------------------------------------------------- bounds
MaxUsers == 3
MaxBooks == 2
MaxReqs == 2
MaxIds == 3
MaxOps == 3

\* ------------------------------------------------- program constants
MinRating == 1
MaxRating == 5
DefaultAverageRating == 0
DefaultTotalReviews == 0

Users == 1..MaxUsers
BookIds == 1..MaxBooks
Reqs == 1..MaxReqs
ReviewIds == 1..MaxIds

\* Ratings a client may send: the ends of the valid range and one value either side.
RatingInputs == {MinRating - 1, MinRating, MaxRating, MaxRating + 1}

NoBook == [exists |-> FALSE]
NoReview == [exists |-> FALSE]
NoReq == [kind |-> "none", user |-> 0, book |-> 0, rating |-> 0, rid |-> 0]
NoSnap == [sum |-> 0, n |-> 0]

\* What a client may put in the aggregate fields of a book payload.
PayloadAggregates ==
    { [averageRating |-> DefaultAverageRating, totalReviews |-> DefaultTotalReviews],
      [averageRating |-> 10 * MaxRating, totalReviews |-> 9] }

VARIABLES
    books,       \* BookIds -> NoBook or [exists, averageRating, totalReviews]
    nextBook,    \* the id the next created book gets
    reviews,     \* ReviewIds -> NoReview or [exists, book, user, rating]
    nextId,      \* the id the next inserted review gets
    pc,          \* Reqs -> position of the request handler
    req,         \* Reqs -> the request being handled
    snap,        \* Reqs -> the ratings the refresh fetched (sum, count)
    res,         \* Reqs -> outcome of the request
    started,     \* the number of review requests received so far
    overlapped   \* Reqs -> history: another refresh of the same book was
                 \*         pending at some moment of this request

vars == <<books, nextBook, reviews, nextId, pc, req, snap, res, started, overlapped>>

\* ------------------------------------------------------------ helpers

\* Mutant: the upper end of the rating range is not enforced.
ValidRating_NoUpperBound(r) == r >= MinRating

\* Review.rating: Number (1-5, required).
ValidRating(r) == r >= MinRating /\ r <= MaxRating

\* The ids of the stored reviews referencing book b.
ReviewsOf(rs, b) == { i \in ReviewIds : rs[i].exists /\ rs[i].book = b }

\* The ids of the stored reviews of user u on book b.
ReviewsOfPair(rs, b, u) == { i \in ReviewsOf(rs, b) : rs[i].user = u }

\* Mutant: the reviews collection has no unique index.
UniqueIndexViolated_NoIndex(rs, b, u) == FALSE

\* Unique compound index on { book: 1, user: 1 }: an insert of (b, u) is
\* refused when a review of the pair is stored.
UniqueIndexViolated(rs, b, u) == ReviewsOfPair(rs, b, u) # {}

\* Mutant: any authenticated user passes the ownership check.
IsOwner_Anyone(review, u) == TRUE

\* PUT/DELETE /api/reviews/:id require ownership.
IsOwner(review, u) == review.user = u

RECURSIVE SumRatings(_, _)
SumRatings(rs, S) ==
    IF S = {} THEN 0
    ELSE LET i == CHOOSE x \in S : TRUE
         IN rs[i].rating + SumRatings(rs, S \ {i})

\* The ratings of book b as the refresh fetches them.
FetchRatings(rs, b) ==
    [sum |-> SumRatings(rs, ReviewsOf(rs, b)), n |-> Cardinality(ReviewsOf(rs, b))]

\* Mutant: the mean is cut to one decimal instead of rounded.
RoundedAverage_Truncated(sum, n) ==
    IF n = 0 THEN DefaultAverageRating
    ELSE (10 * sum) \div n

\* Mean rounded to one decimal, half up, in tenths; 0 without reviews.
RoundedAverage(sum, n) ==
    IF n = 0 THEN DefaultAverageRating
    ELSE (20 * sum + n) \div (2 * n)

\* Mutant: a refresh that fetches no rating leaves the book as it is.
Aggregated_KeepWhenEmpty(old, s) ==
    IF s.n = 0 THEN old
    ELSE [exists |-> TRUE, averageRating |-> RoundedAverage(s.sum, s.n),
          totalReviews |-> s.n]

\* The book record the refresh persists: both fields recomputed from the
\* ratings it fetched, whatever the record held before.
Aggregated(old, s) ==
    [exists |-> TRUE, averageRating |-> RoundedAverage(s.sum, s.n), totalReviews |-> s.n]

\* Mutant: the refresh writes the fetched aggregate to every book.
RefreshTargets_AllBooks(r) == BookIds

\* The book whose aggregate a review operation refreshes: the review's book.
RefreshTargets(r) == { r.book }

\* Mutant: a new book takes its aggregate fields from the request payload.
NewBook_FromPayload(payload) ==
    [exists |-> TRUE, averageRating |-> payload.averageRating,
     totalReviews |-> payload.totalReviews]

\* A new book: the aggregate fields take their defaults, not the payload's.
NewBook(payload) ==
    [exists |-> TRUE, averageRating |-> DefaultAverageRating,
     totalReviews |-> DefaultTotalReviews]

\* Mutant: the delete handler answers without refreshing the book.
AfterWrite_SkipOnDelete(kind) == IF kind = "delete" THEN "idle" ELSE "agg_fetch"

\* Where a handler goes once its review write has committed.
AfterWrite(kind) == "agg_fetch"

RefreshPcs == {"agg_fetch", "agg_write"}

\* History: request p has seen another request's refresh of its book pending.
Overlap(pcN, reqN) ==
    [p \in Reqs |->
        IF pcN[p] = "idle" THEN FALSE
        ELSE overlapped[p]
             \/ \E q \in Reqs \ {p} :
                    pcN[q] \in RefreshPcs /\ reqN[q].book = reqN[p].book]

\* A request is taken by the first free handler slot (slots are anonymous).
FreeSlot(p) ==
    /\ pc[p] = "idle"
    /\ \A q \in Reqs : q < p => pc[q] # "idle"
    /\ started < MaxOps

\* ---------------------------------------------------------------- Init
Init ==
    /\ books = [b \in BookIds |-> NoBook]
    /\ nextBook = 1
    /\ reviews = [i \in ReviewIds |-> NoReview]
    /\ nextId = 1
    /\ pc = [p \in Reqs |-> "idle"]
    /\ req = [p \in Reqs |-> NoReq]
    /\ snap = [p \in Reqs |-> NoSnap]
    /\ res = [p \in Reqs |-> "none"]
    /\ started = 0
    /\ overlapped = [p \in Reqs |-> FALSE]

\* A handler step of p that ends the request: the response r is sent and the
\* handler's locals are gone.
Finish(p, r) ==
    /\ pc' = [pc EXCEPT ![p] = "idle"]
    /\ res' = [res EXCEPT ![p] = r]
    /\ req' = [req EXCEPT ![p] = NoReq]
    /\ snap' = [snap EXCEPT ![p] = NoSnap]

\* A handler step of p that goes on to position l.
Goto(p, l) ==
    /\ pc' = [pc EXCEPT ![p] = l]
    /\ UNCHANGED <<req, snap, res>>

\* ------------------------------------------------------------- actions

\* POST /api/books
CreateBook(payload) ==
    /\ nextBook <= MaxBooks
    /\ books' = [books EXCEPT ![nextBook] = NewBook(payload)]
    /\ nextBook' = nextBook + 1
    /\ UNCHANGED <<reviews, nextId, pc, req, snap, res, started, overlapped>>

\* POST /api/books/:bookId/reviews, up to the lookup of the book.
StartCreate(p, u, b, r) ==
    /\ FreeSlot(p)
    /\ IF books[b].exists
       THEN /\ pc' = [pc EXCEPT ![p] = "c_insert"]
            /\ req' = [req EXCEPT ![p] = [kind |-> "create", user |-> u, book |-> b,
                                          rating |-> r, rid |-> 0]]
            /\ res' = [res EXCEPT ![p] = "none"]
            /\ UNCHANGED snap
       ELSE Finish(p, "NotFound")
    /\ overlapped' = Overlap(pc', req')
    /\ started' = started + 1
    /\ UNCHANGED <<books, nextBook, reviews, nextId>>

\* Create: validation and the insert under the unique index.
Insert(p) ==
    /\ pc[p] = "c_insert"
    /\ IF ~ValidRating(req[p].rating)
       THEN Finish(p, "ValidationError") /\ UNCHANGED <<reviews, nextId>>
       ELSE IF UniqueIndexViolated(reviews, req[p].book, req[p].user)
       THEN Finish(p, "DuplicateReview") /\ UNCHANGED <<reviews, nextId>>
       ELSE /\ nextId <= MaxIds
            /\ reviews' = [reviews EXCEPT ![nextId] =
                              [exists |-> TRUE, book |-> req[p].book,
                               user |-> req[p].user, rating |-> req[p].rating]]
            /\ nextId' = nextId + 1
            /\ Goto(p, AfterWrite("create"))
    /\ overlapped' = Overlap(pc', req')
    /\ UNCHANGED <<books, nextBook, started>>

\* PUT /api/reviews/:id and DELETE /api/reviews/:id, up to the ownership check.
StartChange(p, kind, u, i, r) ==
    /\ FreeSlot(p)
    /\ IF ~reviews[i].exists
       THEN Finish(p, "NotFound")
       ELSE IF ~IsOwner(reviews[i], u)
       THEN Finish(p, "Forbidden")
       ELSE /\ pc' = [pc EXCEPT ![p] = IF kind = "update" THEN "u_save" ELSE "d_remove"]
            /\ req' = [req EXCEPT ![p] = [kind |-> kind, user |-> u,
                                          book |-> reviews[i].book,
                                          rating |-> r, rid |-> i]]
            /\ res' = [res EXCEPT ![p] = "none"]
            /\ UNCHANGED snap
    /\ overlapped' = Overlap(pc', req')
    /\ started' = started + 1
    /\ UNCHANGED <<books, nextBook, reviews, nextId>>

\* Update: validation and the save of the review.
Save(p) ==
    /\ pc[p] = "u_save"
    /\ IF ~ValidRating(req[p].rating)
       THEN Finish(p, "ValidationError") /\ UNCHANGED reviews
       ELSE IF ~reviews[req[p].rid].exists
       THEN Finish(p, "NotFound") /\ UNCHANGED reviews
       ELSE /\ reviews' = [reviews EXCEPT ![req[p].rid].rating = req[p].rating]
            /\ Goto(p, AfterWrite("update"))
    /\ overlapped' = Overlap(pc', req')
    /\ UNCHANGED <<books, nextBook, nextId, started>>

\* Delete: the removal of the review.
Remove(p) ==
    /\ pc[p] = "d_remove"
    /\ IF ~reviews[req[p].rid].exists
       THEN Finish(p, "NotFound") /\ UNCHANGED reviews
       ELSE /\ reviews' = [reviews EXCEPT ![req[p].rid] = NoReview]
            /\ Goto(p, AfterWrite("delete"))
    /\ overlapped' = Overlap(pc', req')
    /\ UNCHANGED <<books, nextBook, nextId, started>>

\* Rating Aggregator, first half: fetch the ratings of the book.
AggFetch(p) ==
    /\ pc[p] = "agg_fetch"
    /\ snap' = [snap EXCEPT ![p] = FetchRatings(reviews, req[p].book)]
    /\ pc' = [pc EXCEPT ![p] = "agg_write"]
    /\ overlapped' = Overlap(pc', req)
    /\ UNCHANGED <<books, nextBook, reviews, nextId, req, res, started>>

\* Rating Aggregator, second half: persist the book's aggregate fields.
AggWrite(p) ==
    /\ pc[p] = "agg_write"
    /\ books' = [b \in BookIds |->
                    IF b \in RefreshTargets(req[p]) /\ books[b].exists
                    THEN Aggregated(books[b], snap[p]) ELSE books[b]]
    /\ Finish(p, "ok")
    /\ overlapped' = Overlap(pc', req')
    /\ UNCHANGED <<nextBook, reviews, nextId, started>>

\* Mutant: a failed refresh undoes the review a create had inserted.
AggWriteFails_RollsBack(p) ==
    /\ pc[p] = "agg_write"
    /\ Finish(p, "PersistenceError")
    /\ reviews' = [i \in ReviewIds |->
                      IF req[p].kind = "create" /\ reviews[i].exists
                         /\ reviews[i].book = req[p].book /\ reviews[i].user = req[p].user
                      THEN NoReview ELSE reviews[i]]
    /\ overlapped' = Overlap(pc', req')
    /\ UNCHANGED <<books, nextBook, nextId, started>>

\* Rating Aggregator, second half, when the persistence write fails.
AggWriteFails(p) ==
    /\ pc[p] = "agg_write"
    /\ Finish(p, "PersistenceError")
    /\ overlapped' = Overlap(pc', req')
    /\ UNCHANGED <<books, nextBook, reviews, nextId, started>>

Next ==
    \/ \E payload \in PayloadAggregates : CreateBook(payload)
    \/ \E p \in Reqs, u \in Users, b \in BookIds, r \in RatingInputs :
          StartCreate(p, u, b, r)
    \/ \E p \in Reqs, u \in Users, i \in ReviewIds, r \in RatingInputs :
          StartChange(p, "update", u, i, r)
    \/ \E p \in Reqs, u \in Users, i \in ReviewIds :
          StartChange(p, "delete", u, i, 0)
    \/ \E p \in Reqs : Insert(p)
    \/ \E p \in Reqs : Save(p)
    \/ \E p \in Reqs : Remove(p)
    \/ \E p \in Reqs : AggFetch(p)
    \/ \E p \in Reqs : AggWrite(p)
    \/ \E p \in Reqs : AggWriteFails(p)

Spec == Init /\ [][Next]_vars

\* -------------------------------------------------------------- claims

\* Book b's aggregate fields agree with the reviews rs that reference it:
\* totalReviews is their number, averageRating (tenths) is within half a
\* tenth of their mean, and 0 when there are none.
Consistent(bk, rs, b) ==
    LET R == { i \in ReviewIds : rs[i].exists /\ rs[i].book = b }
        total == SumRatings(rs, R)
        n == Cardinality(R)
        d == bk[b].averageRating * n - 10 * total
    IN /\ bk[b].totalReviews = n
       /\ n = 0 => bk[b].averageRating = 0
       /\ n > 0 => (2 * d <= n /\ -2 * d <= n)

\* Request p takes the step that completes its aggregate refresh successfully.
RefreshCompletes(p) ==
    pc[p] = "agg_write" /\ pc'[p] = "idle" /\ res'[p] = "ok"

\* Request p takes a step.
Steps(p) == pc'[p] # pc[p] \/ res'[p] # res[p]

\* C1 as stated: whenever a review create, update or delete completes
\* successfully, its book's averageRating is the mean of the book's current
\* ratings rounded to one decimal (0 without reviews) and totalReviews is
\* their number.
C1_AggregateAfterEveryOperation ==
    [][\A p \in Reqs :
          RefreshCompletes(p) => Consistent(books', reviews', req[p].book)]_vars

\* C1, amended: the same, for an operation whose refresh persists the ratings
\* of the review set as it is at that moment (no other write to the book's
\* reviews committed between the refresh's fetch and its persist).
C1_AggregateOfFetchedSet ==
    [][\A p \in Reqs :
          (RefreshCompletes(p)
             /\ snap[p].n = Cardinality(ReviewsOf(reviews, req[p].book))
             /\ snap[p].sum = SumRatings(reviews, ReviewsOf(reviews, req[p].book)))
          => Consistent(books', reviews', req[p].book)]_vars

\* C1 witness: a book with three reviews whose mean is not a whole number of
\* tenths carries the rounded mean, after an operation answered "ok".
C1_Witness ==
    \E b \in BookIds, p \in Reqs :
        /\ books[b].exists /\ res[p] = "ok"
        /\ books[b].totalReviews = 3
        /\ (10 * SumRatings(reviews, ReviewsOf(reviews, b))) % 3 # 0
        /\ Consistent(books, reviews, b)

\* No two stored reviews share their (book, user) pair.
UniquePair(rs) ==
    \A i, j \in ReviewIds :
        (rs[i].exists /\ rs[j].exists /\ rs[i].book = rs[j].book
            /\ rs[i].user = rs[j].user) => i = j

\* C2: at most one review exists per (book, user) pair in every reachable
\* state, and a create attempt with a valid rating that reaches the insert is
\* refused with DuplicateReview exactly when a review of the pair is stored,
\* and otherwise inserts the pair's only review.
C2_OneReviewPerPair ==
    [][/\ UniquePair(reviews')
       /\ \A p \in Reqs :
            (pc[p] = "c_insert" /\ Steps(p) /\ ValidRating(req[p].rating)) =>
               IF ReviewsOfPair(reviews, req[p].book, req[p].user) # {}
               THEN res'[p] = "DuplicateReview" /\ pc'[p] = "idle"
                    /\ reviews' = reviews
               ELSE pc'[p] \in RefreshPcs
                    /\ Cardinality(ReviewsOfPair(reviews', req[p].book, req[p].user)) = 1
      ]_vars

\* C2 witness: of two create attempts of one user on one book, one has
\* inserted its review and is still being handled, the other was answered
\* DuplicateReview.
C2_Witness ==
    \E p, q \in Reqs :
        /\ p # q
        /\ req[p].kind = "create" /\ pc[p] \in RefreshPcs
        /\ res[q] = "DuplicateReview"
        /\ Cardinality(ReviewsOfPair(reviews, req[p].book, req[p].user)) = 1

\* C3: no step of an update (its save, its refresh) changes the aggregate
\* fields of a book other than the one its review references.
C3_UpdateTouchesOnlyItsBook ==
    [][\A p \in Reqs :
          (req[p].kind = "update" /\ Steps(p)) =>
             \A b \in BookIds : b # req[p].book => books'[b] = books[b]]_vars

\* C3 witness: an update has saved its rating and is about to persist a new
\* aggregate for its book, while another book has reviews of its own.
C3_Witness ==
    \E p \in Reqs, b \in BookIds :
        /\ req[p].kind = "update" /\ pc[p] = "agg_write"
        /\ RoundedAverage(snap[p].sum, snap[p].n) # books[req[p].book].averageRating
        /\ b # req[p].book /\ books[b].exists /\ books[b].totalReviews > 0

C5_ForbiddenForNonOwner ==
    [][\A p \in Reqs, u \in Users, i \in ReviewIds, r \in RatingInputs,
          kind \in {"update", "delete"} :
          (reviews[i].exists /\ reviews[i].user # u
             /\ StartChange(p, kind, u, i, r)) =>
             /\ res'[p] = "Forbidden"
             /\ pc'[p] = "idle"
             /\ reviews' = reviews
             /\ books' = books]_vars

\* C5 witness: a request on a stored review was answered Forbidden.
C5_Witness ==
    \E p \in Reqs, i \in ReviewIds :
        res[p] = "Forbidden" /\ reviews[i].exists

C8_RefreshFailureKeepsReview ==
    [][\A p \in Reqs :
          (pc[p] = "agg_write" /\ Steps(p) /\ res'[p] # "ok") =>
             /\ res'[p] = "PersistenceError"
             /\ reviews' = reviews
             /\ books' = books]_vars

\* C8 witness: a request was answered PersistenceError, its review is stored
\* and the book's aggregate is stale.
C8_Witness ==
    \E p \in Reqs, b \in BookIds :
        /\ res[p] = "PersistenceError"
        /\ ReviewsOf(reviews, b) # {}
        /\ ~Consistent(books, reviews, b)

\* C9: a step that changes the reviews starts the refresh of the writing
\* request; a refresh starts only from a committed write; the books change
\* for a review request only in the last step of its refresh; and a request
\* is answered "ok" only by that step.
C9_RefreshLastAndNeverSkipped ==
    [][/\ reviews' # reviews =>
            \E p \in Reqs :
               pc[p] \in {"c_insert", "u_save", "d_remove"} /\ pc'[p] = "agg_fetch"
       /\ \A p \in Reqs :
            /\ (pc'[p] = "agg_fetch" /\ pc[p] # "agg_fetch") =>
                  /\ pc[p] \in {"c_insert", "u_save", "d_remove"}
                  /\ pc[p] = "c_insert" =>
                        \E i \in ReviewIds :
                           /\ ~reviews[i].exists /\ reviews'[i].exists
                           /\ reviews'[i].rating = req[p].rating
                  /\ pc[p] = "u_save" =>
                        (reviews'[req[p].rid].exists
                           /\ reviews'[req[p].rid].rating = req[p].rating)
                  /\ pc[p] = "d_remove" =>
                        (reviews[req[p].rid].exists /\ ~reviews'[req[p].rid].exists)
            /\ (pc[p] \in {"c_insert", "u_save", "d_remove"} /\ pc'[p] # pc[p]) =>
                  (pc'[p] = "agg_fetch" \/ (pc'[p] = "idle" /\ res'[p] # "ok"
                                               /\ reviews' = reviews))
            /\ (Steps(p) /\ pc[p] # "agg_write") =>
                  (books' = books /\ res'[p] # "ok")
            /\ (pc[p] = "agg_fetch" /\ Steps(p)) => pc'[p] = "agg_write"
      ]_vars

\* C9 witness: a delete has removed the last review of a book and its refresh
\* is pending: the book still shows the review.
C9_Witness ==
    \E p \in Reqs :
        /\ req[p].kind = "delete" /\ pc[p] = "agg_fetch"
        /\ ReviewsOf(reviews, req[p].book) = {}
        /\ books[req[p].book].totalReviews = 1

\* C10: a review operation that completes its refresh with no other refresh
\* of the same book pending at any moment of its handling leaves the book's
\* averageRating and totalReviews at the rounded mean and the number of the
\* book's reviews, whatever they were before.
C10_NextMutationRestores ==
    [][\A p \in Reqs :
          (RefreshCompletes(p) /\ ~overlapped[p]) =>
             Consistent(books', reviews', req[p].book)]_vars

\* C10 witness: two review operations, the only ones so far, have both been
\* answered "ok" and a book's aggregate differs from its reviews.
C10_Witness ==
    /\ started = 2
    /\ \A p \in Reqs : pc[p] = "idle" /\ res[p] = "ok"
    /\ \E b \in BookIds : books[b].exists /\ ~Consistent(books, reviews, b)

====
